---------------------------- MODULE Spec2Model ----------------------------
(***************************************************************************)
(* Model of the ads service of src/ads.py: the periodic reconciler         *)
(* check_ads_periodically (one background thread) and the Stripe webhook   *)
(* handler stripe_webhook (one execution per inbound request), which share *)
(* nothing but the Firestore collection 'customads'.                       *)
(*                                                                         *)
(* Times are seconds.  A datetime is a record [wall, utcoffset]: the wall  *)
(* clock reading and the offset of its tzinfo from UTC; the instant it     *)
(* denotes is wall - utcoffset.  An optional value is a tuple of length    *)
(* zero (Python's None / an absent field) or one.                          *)
(***************************************************************************)
EXTENDS Integers, Sequences, FiniteSets

VARIABLES
    customads,    \* the collection: document id -> fields of the listing
    clock,        \* wall clock (UTC seconds)
    rpc,          \* position of the reconciler thread
    now,          \* `now` of the current pass (line 156)
    query,        \* result of the pass's query (line 158): id -> fields as read
    todo,         \* documents of `query` the for loop has not reached yet
    passes,       \* number of passes started
    pass,         \* per document: the calls the current pass made for it
    dispatchLog,  \* per document: the `now` of every pass that called the notifier
    hpc,          \* per webhook execution: its position
    hev,          \* per webhook execution: the event it received
    htodo,        \* per webhook execution: documents of its query (line 212) its
                  \* for loop has not reached yet
    hresp         \* per webhook execution: HTTP status of its response (0: none yet)

vars == <<customads, clock, rpc, now, query, todo, passes, pass, dispatchLog,
          hpc, hev, htodo, hresp>>

rvars == <<rpc, now, query, todo, passes, pass, dispatchLog>>
hvars == <<hpc, hev, htodo, hresp>>

---------------------------------------------------------------------------
(* Bounds and program constants *)

\* passes the reconciler thread starts
MaxPasses == 2

\* timedelta(days=1), in seconds (line 173)
DAY == 86400

\* time.sleep(300) (line 187)
SLEEP == 300

\* document ids of the collection, in the order a query returns them (Firestore
\* returns the documents of a query without order_by by ascending document id)
DocOrder == <<"doc1", "doc2">>
Docs == { DocOrder[i] : i \in DOMAIN DocOrder }

\* the document a for loop over the query result S reaches first
First(S) == DocOrder[CHOOSE i \in DOMAIN DocOrder :
                       /\ DocOrder[i] \in S
                       /\ \A j \in DOMAIN DocOrder : DocOrder[j] \in S => i <= j]

\* concurrent executions of the webhook handler
Handlers == {"h1", "h2"}

\* Python's None for a string field
NONE == "<None>"


\* time between the `now` of two consecutive passes: the sleep of 300 s plus
\* whatever the pass itself and the scheduler took
Elapsed == {SLEEP, DAY}

\* the wall clock when the thread starts
StartTime == DAY

Datetime(w, off) == [wall |-> w, utcoffset |-> off]

\* datetime.now(timezone.utc)
Now(c) == Datetime(c, 0)

\* the instant a timezone-aware datetime denotes
Instant(t) == t.wall - t.utcoffset

\* datetime.replace(tzinfo=timezone.utc): same wall clock fields, tzinfo UTC
ReplaceTzinfoUtc(t) == [t EXCEPT !.utcoffset = 0]

None == << >>
Some(x) == << x >>

\* Firestore hands timestamps back as UTC datetimes
InitialStamps == {None, Some(Datetime(StartTime - DAY, 0)),
                  Some(Datetime(StartTime - DAY + SLEEP, 0))}

Listing(ad, admin, approved, stamp) ==
    [adUnitId |-> ad, ad_admin |-> admin, isApproved |-> approved,
     status |-> IF approved THEN "active" ELSE "pending", last_email_sent |-> stamp]

\* the collections the service may start with.  doc1 is an unapproved listing
\* with both correlation fields and any stamp; doc2 is a second listing of the
\* same ad unit, a listing of another ad unit that was mailed five minutes
\* less than a day ago, a listing that lacks adUnitId or ad_admin, or an approved
\* listing.  In one more collection the listing that lacks a field comes first.
InitialCollections ==
    { [d \in Docs |-> IF d = "doc1" THEN l1 ELSE l2] :
        l1 \in { Listing("ad1", "a@x.com", FALSE, t) : t \in InitialStamps },
        l2 \in { Listing("ad1", "a@x.com", FALSE, None),
                 Listing("ad2", "a@x.com", FALSE, Some(Datetime(StartTime - DAY + SLEEP, 0))),
                 Listing(NONE, "a@x.com", FALSE, None),
                 Listing("ad1", NONE, FALSE, Some(Datetime(StartTime - DAY, 0))),
                 Listing("ad2", "a@x.com", TRUE, Some(Datetime(StartTime - DAY, 0))) } }
    \cup { [d \in Docs |-> IF d = "doc1"
                           THEN Listing(NONE, "a@x.com", FALSE, Some(Datetime(StartTime - DAY, 0)))
                           ELSE Listing("ad1", "a@x.com", FALSE, None)] }

---------------------------------------------------------------------------
(* Collaborators' outcomes *)

\* smtplib inside send_payment_link_to_admin: sent, or an exception that the
\* function catches and logs
MailOutcomes == {"sent", "failed"}

\* a Firestore call: done, or an exception nothing catches
StoreOutcomes == {"ok", "raise"}

CompletedType == "checkout.session.completed"

\* inbound requests: signature, payload, event type, metadata's ad_id
Events ==
    { [signature |-> "invalid", payload |-> "json", type |-> CompletedType, ad_id |-> Some("ad1")],
      [signature |-> "valid", payload |-> "malformed", type |-> CompletedType, ad_id |-> Some("ad1")],
      [signature |-> "valid", payload |-> "json", type |-> "payment_intent.created", ad_id |-> Some("ad1")],
      [signature |-> "valid", payload |-> "json", type |-> CompletedType, ad_id |-> Some("ad1")],
      [signature |-> "valid", payload |-> "json", type |-> CompletedType, ad_id |-> Some("ad2")] }

NoEvent == [signature |-> "invalid", payload |-> "malformed", type |-> "", ad_id |-> None]

---------------------------------------------------------------------------
(* Pure parts of the code *)

\* `not x` for a string field read with .get(..., None)
Falsy(x) == x \in {NONE, ""}

\* faulty variant: `and` in place of `or`
MissingFields_both(ad_data) == Falsy(ad_data.adUnitId) /\ Falsy(ad_data.ad_admin)

\* line 167: if not ad_id or not ad_admin_email
MissingFields(ad_data) == Falsy(ad_data.adUnitId) \/ Falsy(ad_data.ad_admin)

\* faulty variant: the throttle check is missing
SentRecently_never(t, ad_data) == FALSE

\* faulty variant: a listing without stamp is taken for a recently mailed one
SentRecently_noneSkips(t, ad_data) ==
    \/ ad_data.last_email_sent = None
    \/ Instant(t) - Instant(ReplaceTzinfoUtc(ad_data.last_email_sent[1])) < DAY

\* faulty variant: a stamp exactly one day old still throttles
SentRecently_inclusive(t, ad_data) ==
    /\ ad_data.last_email_sent # None
    /\ Instant(t) - Instant(ReplaceTzinfoUtc(ad_data.last_email_sent[1])) <= DAY

\* lines 171-173: if last_email_sent: ... now - last_email_sent < timedelta(days=1)
SentRecently(t, ad_data) ==
    /\ ad_data.last_email_sent # None
    /\ Instant(t) - Instant(ReplaceTzinfoUtc(ad_data.last_email_sent[1])) < DAY

\* faulty variant: the query has no filter
WhereNotApproved_all(store) == DOMAIN store

\* line 158: ads_ref.where('isApproved', '==', False).get()
WhereNotApproved(store) == { d \in DOMAIN store : store[d].isApproved = FALSE }

\* faulty variant: the query stops at the first match
WhereAdUnitId_first(store, ad_id) ==
    IF { d \in DOMAIN store : store[d].adUnitId = ad_id } = {} THEN {}
    ELSE { First({ d \in DOMAIN store : store[d].adUnitId = ad_id }) }

\* line 212: ads_ref.where('adUnitId', '==', ad_id).get()
WhereAdUnitId(store, ad_id) == { d \in DOMAIN store : store[d].adUnitId = ad_id }

\* faulty variant: the stamp is not persisted
UpdateLastEmailSent_noop(doc, t) == doc

\* faulty variant: the write also puts the listing back to unapproved/pending
UpdateLastEmailSent_resets(doc, t) ==
    [doc EXCEPT !.last_email_sent = Some(t), !.isApproved = FALSE, !.status = "pending"]

\* faulty variant: the field is removed instead of set
UpdateLastEmailSent_clears(doc, t) == [doc EXCEPT !.last_email_sent = None]

\* lines 181-183: update({'last_email_sent': now})
UpdateLastEmailSent(doc, t) == [doc EXCEPT !.last_email_sent = Some(t)]

\* faulty variant: the flag is set without the status
UpdateApproved_flagOnly(doc) == [doc EXCEPT !.isApproved = TRUE]

\* faulty variant: the approval also clears the stamp of the last mail
UpdateApproved_clearsStamp(doc) ==
    [doc EXCEPT !.isApproved = TRUE, !.status = "active", !.last_email_sent = None]

\* lines 216-219: update({'isApproved': True, 'status': 'active'})
UpdateApproved(doc) == [doc EXCEPT !.isApproved = TRUE, !.status = "active"]

\* faulty variant: the signature is not verified
ConstructEvent_unverified(ev) == IF ev.payload # "json" THEN "ValueError" ELSE "ok"

\* lines 195-205: stripe.Webhook.construct_event
ConstructEvent(ev) ==
    IF ev.signature # "valid" THEN "SignatureVerificationError"
    ELSE IF ev.payload # "json" THEN "ValueError"
    ELSE "ok"

\* faulty variant: the event type is not looked at
IsCompleted_any(ev) == TRUE

\* line 207: if event['type'] == 'checkout.session.completed'
IsCompleted(ev) == ev.type = CompletedType

\* faulty variant: .get('ad_id') without the default
MetadataAdId_none(ev) == IF ev.ad_id = None THEN NONE ELSE ev.ad_id[1]

\* line 209: session['metadata'].get('ad_id', 'Unknown')
MetadataAdId(ev) == IF ev.ad_id = None THEN "Unknown" ELSE ev.ad_id[1]

NoCalls == [link |-> 0, notify |-> 0, update |-> 0,
            linked |-> FALSE, mailed |-> FALSE, stored |-> FALSE, approvedAtTurn |-> FALSE]

---------------------------------------------------------------------------
Init ==
    /\ customads \in InitialCollections
    /\ clock = StartTime
    /\ rpc = "start"
    /\ now = Now(StartTime)
    /\ query = << >>
    /\ todo = {}
    /\ passes = 0
    /\ pass = [d \in Docs |-> NoCalls]
    /\ dispatchLog = [d \in Docs |-> << >>]
    /\ hpc = [h \in Handlers |-> "idle"]
    /\ hev = [h \in Handlers |-> NoEvent]
    /\ htodo = [h \in Handlers |-> {}]
    /\ hresp = [h \in Handlers |-> 0]

---------------------------------------------------------------------------
(* check_ads_periodically *)

\* lines 155-158: now = datetime.now(timezone.utc); the query for unapproved ads.
\* An exception of the query leaves the while loop and ends the thread.
StartPass ==
    /\ rpc = "start"
    /\ passes < MaxPasses
    /\ passes' = passes + 1
    /\ now' = Now(clock)
    /\ pass' = [d \in Docs |-> NoCalls]
    /\ \E out \in StoreOutcomes :
         IF out = "ok"
         THEN /\ query' = [d \in WhereNotApproved(customads) |-> customads[d]]
              /\ todo' = WhereNotApproved(customads)
              /\ rpc' = "loop"
         ELSE /\ query' = << >>
              /\ todo' = {}
              /\ rpc' = "dead"
    /\ UNCHANGED <<customads, clock, dispatchLog>>
    /\ UNCHANGED hvars

\* lines 167-169: missing adUnitId or ad_admin: warning, continue
SkipMissingFields(d) ==
    /\ rpc = "loop"
    /\ todo # {}
    /\ d = First(todo)
    /\ MissingFields(query[d])
    /\ todo' = todo \ {d}
    /\ pass' = [pass EXCEPT ![d].approvedAtTurn = customads[d].isApproved]
    /\ UNCHANGED <<customads, clock, rpc, now, query, passes, dispatchLog>>
    /\ UNCHANGED hvars

\* lines 171-175: mailed less than a day ago: continue
SkipSentRecently(d) ==
    /\ rpc = "loop"
    /\ todo # {}
    /\ d = First(todo)
    /\ ~MissingFields(query[d])
    /\ SentRecently(now, query[d])
    /\ todo' = todo \ {d}
    /\ pass' = [pass EXCEPT ![d].approvedAtTurn = customads[d].isApproved]
    /\ UNCHANGED <<customads, clock, rpc, now, query, passes, dispatchLog>>
    /\ UNCHANGED hvars

\* faulty variant: the stamp is written although no link was obtained
LinkCreationFailed_stamps(d) ==
    /\ rpc = "loop"
    /\ todo # {}
    /\ d = First(todo)
    /\ ~MissingFields(query[d])
    /\ ~SentRecently(now, query[d])
    /\ todo' = todo \ {d}
    /\ pass' = [pass EXCEPT ![d].link = @ + 1,
                            ![d].approvedAtTurn = customads[d].isApproved]
    /\ customads' = [customads EXCEPT ![d] = UpdateLastEmailSent(@, now)]
    /\ UNCHANGED <<clock, rpc, now, query, passes, dispatchLog>>
    /\ UNCHANGED hvars

\* lines 177, 184-185 with create_payment_link returning None (lines 149-151)
LinkCreationFailed(d) ==
    /\ rpc = "loop"
    /\ todo # {}
    /\ d = First(todo)
    /\ ~MissingFields(query[d])
    /\ ~SentRecently(now, query[d])
    /\ todo' = todo \ {d}
    /\ pass' = [pass EXCEPT ![d].link = @ + 1,
                            ![d].approvedAtTurn = customads[d].isApproved]
    /\ UNCHANGED <<customads, clock, rpc, now, query, passes, dispatchLog>>
    /\ UNCHANGED hvars

\* lines 177-183 with a payment link: send_payment_link_to_admin (which catches
\* its own failure, lines 116-123), then the update of last_email_sent, whose
\* exception nothing catches
NotifyAndUpdate(d) ==
    /\ rpc = "loop"
    /\ todo # {}
    /\ d = First(todo)
    /\ ~MissingFields(query[d])
    /\ ~SentRecently(now, query[d])
    /\ todo' = todo \ {d}
    /\ dispatchLog' = [dispatchLog EXCEPT ![d] = Append(@, Instant(now))]
    /\ \E mail \in MailOutcomes, out \in StoreOutcomes :
         /\ pass' = [pass EXCEPT ![d].link = @ + 1,
                                 ![d].linked = TRUE,
                                 ![d].notify = @ + 1,
                                 ![d].mailed = (mail = "sent"),
                                 ![d].update = @ + 1,
                                 ![d].stored = (out = "ok"),
                                 ![d].approvedAtTurn = customads[d].isApproved]
         /\ IF out = "ok"
            THEN /\ customads' = [customads EXCEPT ![d] = UpdateLastEmailSent(@, now)]
                 /\ rpc' = rpc
            ELSE /\ customads' = customads
                 /\ rpc' = "dead"
    /\ UNCHANGED <<clock, now, query, passes>>
    /\ UNCHANGED hvars

\* the for loop is exhausted: time.sleep(300) (line 187)
Sleep ==
    /\ rpc = "loop"
    /\ todo = {}
    /\ rpc' = "sleep"
    /\ UNCHANGED <<customads, clock, now, query, todo, passes, pass, dispatchLog>>
    /\ UNCHANGED hvars

\* the sleep is over: back to the head of the while loop
WakeUp ==
    /\ rpc = "sleep"
    /\ passes < MaxPasses
    /\ \E e \in Elapsed :
         /\ e >= SLEEP
         /\ clock' = clock + e
    /\ rpc' = "start"
    /\ UNCHANGED <<customads, now, query, todo, passes, pass, dispatchLog>>
    /\ UNCHANGED hvars

---------------------------------------------------------------------------
(* stripe_webhook *)

\* lines 191-212: construct_event; 400 on ValueError or
\* SignatureVerificationError; an event of another type goes straight to the
\* return of line 222; for checkout.session.completed the query by adUnitId,
\* whose exception nothing catches (Flask answers 500)
Receive(h, ev) ==
    /\ hpc[h] = "idle"
    /\ hev' = [hev EXCEPT ![h] = ev]
    /\ IF ConstructEvent(ev) # "ok"
       THEN /\ hpc' = [hpc EXCEPT ![h] = "returned"]
            /\ hresp' = [hresp EXCEPT ![h] = 400]
            /\ UNCHANGED htodo
       ELSE IF ~IsCompleted(ev)
       THEN /\ hpc' = [hpc EXCEPT ![h] = "returned"]
            /\ hresp' = [hresp EXCEPT ![h] = 200]
            /\ UNCHANGED htodo
       ELSE \E out \in StoreOutcomes :
              IF out = "ok"
              THEN /\ hpc' = [hpc EXCEPT ![h] = "updating"]
                   /\ htodo' = [htodo EXCEPT ![h] = WhereAdUnitId(customads, MetadataAdId(ev))]
                   /\ UNCHANGED hresp
              ELSE /\ hpc' = [hpc EXCEPT ![h] = "raised"]
                   /\ hresp' = [hresp EXCEPT ![h] = 500]
                   /\ UNCHANGED htodo
    /\ UNCHANGED <<customads, clock>>
    /\ UNCHANGED rvars

\* lines 214-220: one iteration of the for loop
Approve(h, d) ==
    /\ hpc[h] = "updating"
    /\ htodo[h] # {}
    /\ d = First(htodo[h])
    /\ htodo' = [htodo EXCEPT ![h] = @ \ {d}]
    /\ \E out \in StoreOutcomes :
         IF out = "ok"
         THEN /\ customads' = [customads EXCEPT ![d] = UpdateApproved(@)]
              /\ UNCHANGED <<hpc, hresp>>
         ELSE /\ customads' = customads
              /\ hpc' = [hpc EXCEPT ![h] = "raised"]
              /\ hresp' = [hresp EXCEPT ![h] = 500]
    /\ UNCHANGED <<clock, hev>>
    /\ UNCHANGED rvars

\* line 222: return jsonify(success=True)
Return(h) ==
    /\ hpc[h] = "updating"
    /\ htodo[h] = {}
    /\ hpc' = [hpc EXCEPT ![h] = "returned"]
    /\ hresp' = [hresp EXCEPT ![h] = 200]
    /\ UNCHANGED <<customads, clock, hev, htodo>>
    /\ UNCHANGED rvars

\* the response is out; the worker takes the next request
Close(h) ==
    /\ hpc[h] \in {"returned", "raised"}
    /\ hpc' = [hpc EXCEPT ![h] = "idle"]
    /\ hev' = [hev EXCEPT ![h] = NoEvent]
    /\ htodo' = [htodo EXCEPT ![h] = {}]
    /\ hresp' = [hresp EXCEPT ![h] = 0]
    /\ UNCHANGED <<customads, clock>>
    /\ UNCHANGED rvars

---------------------------------------------------------------------------
Next ==
    \/ StartPass
    \/ \E d \in Docs : SkipMissingFields(d)
    \/ \E d \in Docs : SkipSentRecently(d)
    \/ \E d \in Docs : LinkCreationFailed(d)
    \/ \E d \in Docs : NotifyAndUpdate(d)
    \/ Sleep
    \/ WakeUp
    \/ \E h \in Handlers, ev \in Events : Receive(h, ev)
    \/ \E h \in Handlers, d \in Docs : Approve(h, d)
    \/ \E h \in Handlers : Return(h)
    \/ \E h \in Handlers : Close(h)

Spec == Init /\ [][Next]_vars

---------------------------------------------------------------------------
(* The service on collections that hold listings whose adUnitId is the     *)
(* string "Unknown", receiving completion events with and without an ad_id *)
(* in their metadata.                                                      *)

UnknownCollections ==
    { [d \in Docs |-> IF d = "doc1"
                      THEN Listing("Unknown", "a@x.com", FALSE, None)
                      ELSE Listing("Unknown", NONE, FALSE, Some(Datetime(StartTime - DAY + SLEEP, 0)))],
      [d \in Docs |-> IF d = "doc1"
                      THEN Listing("ad1", "a@x.com", FALSE, Some(Datetime(StartTime - DAY + SLEEP, 0)))
                      ELSE Listing("Unknown", "a@x.com", FALSE, None)],
      [d \in Docs |-> IF d = "doc1"
                      THEN Listing("ad1", "a@x.com", FALSE, None)
                      ELSE Listing(NONE, "a@x.com", FALSE, None)] }

EventsNoAdId ==
    { [signature |-> "valid", payload |-> "json", type |-> CompletedType, ad_id |-> None],
      [signature |-> "valid", payload |-> "json", type |-> CompletedType, ad_id |-> Some("ad1")] }

InitUnknown ==
    /\ customads \in UnknownCollections
    /\ clock = StartTime
    /\ rpc = "start"
    /\ now = Now(StartTime)
    /\ query = << >>
    /\ todo = {}
    /\ passes = 0
    /\ pass = [d \in Docs |-> NoCalls]
    /\ dispatchLog = [d \in Docs |-> << >>]
    /\ hpc = [h \in Handlers |-> "idle"]
    /\ hev = [h \in Handlers |-> NoEvent]
    /\ htodo = [h \in Handlers |-> {}]
    /\ hresp = [h \in Handlers |-> 0]

NextUnknown ==
    \/ StartPass
    \/ \E d \in Docs : SkipMissingFields(d)
    \/ \E d \in Docs : SkipSentRecently(d)
    \/ \E d \in Docs : LinkCreationFailed(d)
    \/ \E d \in Docs : NotifyAndUpdate(d)
    \/ Sleep
    \/ WakeUp
    \/ \E h \in Handlers, ev \in EventsNoAdId : Receive(h, ev)
    \/ \E h \in Handlers, d \in Docs : Approve(h, d)
    \/ \E h \in Handlers : Return(h)
    \/ \E h \in Handlers : Close(h)

SpecUnknown == InitUnknown /\ [][NextUnknown]_vars

---------------------------------------------------------------------------
(* Vocabulary of the properties: events and listings classified by their     *)
(* own fields.                                                                *)

ValidEvent(ev) == ev.signature = "valid" /\ ev.payload = "json"

CompletionEvent(ev) == ValidEvent(ev) /\ ev.type = CompletedType

\* the ad id a completion event carries
CarriedAdId(ev) == ev.ad_id[1]

Matching(ev) == { d \in Docs : customads[d].adUnitId = CarriedAdId(ev) }

Approved(l) == l.isApproved = TRUE /\ l.status = "active"

\* execution h of the handler takes a step
HandlerStep(h) ==
    <<hpc[h], hev[h], htodo[h], hresp[h]>>' # <<hpc[h], hev[h], htodo[h], hresp[h]>>

\* the event execution h is handling across a step
Handled(h) == IF hpc[h] = "idle" THEN hev'[h] ELSE hev[h]

\* execution h receives its request in this step
Receives(h) == hpc[h] = "idle" /\ hpc'[h] # "idle"

\* the for loop of the current pass has been through document d
Reached(d) == d \in DOMAIN query /\ d \notin todo

HasBothFields(l) == l.adUnitId \notin {NONE, ""} /\ l.ad_admin \notin {NONE, ""}

\* the stamp the pass read for d is less than a day before the pass's now
StampedWithinDay(d) ==
    /\ query[d].last_email_sent # None
    /\ now.wall - query[d].last_email_sent[1].wall < DAY

---------------------------------------------------------------------------
(* C1 *)

C1_Post ==
    \A h \in Handlers :
        (hpc[h] = "returned" /\ CompletionEvent(hev[h])) =>
            /\ hresp[h] = 200
            /\ \A d \in Matching(hev[h]) : Approved(customads[d])

C1_Frame ==
    \A h \in Handlers :
        (HandlerStep(h) /\ CompletionEvent(Handled(h))) =>
            \A d \in Docs :
                customads[d].adUnitId # CarriedAdId(Handled(h)) => customads'[d] = customads[d]

\* C1: once an execution of the webhook handler that received a validly signed,
\* parseable checkout.session.completed event carrying ad id X has reached its
\* return statement, its response is 200 and every listing whose adUnitId is X
\* is approved and active; no step of that execution changes a listing whose
\* adUnitId differs from X.
C1_CompletionApprovesMatching == []C1_Post /\ [][C1_Frame]_vars

\* an execution for X has returned while both listings carry X and both are approved
C1_Witness ==
    \E h \in Handlers :
        /\ hpc[h] = "returned"
        /\ CompletionEvent(hev[h])
        /\ Cardinality(Matching(hev[h])) = 2
        /\ \E d \in DOMAIN query : d \in Matching(hev[h]) /\ Approved(customads[d])

---------------------------------------------------------------------------
(* C2 *)

C2_Post ==
    \A h \in Handlers :
        (hpc[h] # "idle" /\ ~ValidEvent(hev[h])) =>
            hpc[h] = "returned" /\ hresp[h] = 400 /\ htodo[h] = {}

C2_Frame ==
    \A h \in Handlers :
        (HandlerStep(h) /\ ~ValidEvent(Handled(h))) => customads' = customads

\* C2: an execution that received an event whose signature is invalid or whose
\* payload is malformed answers 400 without entering the update loop, and no
\* step of it changes any field of any listing.
C2_InvalidRejected == []C2_Post /\ [][C2_Frame]_vars

\* both kinds of invalid request have been answered
C2_Witness ==
    \E h1, h2 \in Handlers :
        /\ hpc[h1] = "returned" /\ hev[h1].signature = "invalid" /\ hresp[h1] = 400
        /\ hpc[h2] = "returned" /\ hev[h2].payload = "malformed" /\ hresp[h2] = 400

---------------------------------------------------------------------------
(* C3 *)

C3_Post ==
    \A h \in Handlers :
        (hpc[h] # "idle" /\ ValidEvent(hev[h]) /\ hev[h].type # CompletedType) =>
            hpc[h] = "returned" /\ hresp[h] = 200 /\ htodo[h] = {}

C3_Frame ==
    \A h \in Handlers :
        (HandlerStep(h) /\ ValidEvent(Handled(h)) /\ Handled(h).type # CompletedType) =>
            customads' = customads

\* C3: an execution that received a validly signed, parseable event of a type
\* other than checkout.session.completed answers 200 without entering the
\* update loop, and no step of it changes any listing.
C3_OtherTypeIgnored == []C3_Post /\ [][C3_Frame]_vars

\* such an event has been answered while a listing its ad_id names is unapproved
C3_Witness ==
    \E h \in Handlers :
        /\ hpc[h] = "returned"
        /\ ValidEvent(hev[h])
        /\ hev[h].type # CompletedType
        /\ hresp[h] = 200
        /\ \E d \in Matching(hev[h]) : ~customads[d].isApproved

---------------------------------------------------------------------------
(* C4 *)

\* C4: a listing the pass's query returned whose stamp, as read, is less than
\* 24h before the pass's now gets no link-creation call, no notify call and no
\* store update in that pass, and its stored stamp is the one that was read.
C4_ThrottledUntouched ==
    \A d \in DOMAIN query :
        StampedWithinDay(d) =>
            /\ pass[d].link = 0
            /\ pass[d].notify = 0
            /\ pass[d].update = 0
            /\ customads[d].last_email_sent = query[d].last_email_sent

\* a pass is over that went through a listing with both fields stamped less
\* than a day before
C4_Witness ==
    /\ rpc = "sleep"
    /\ \E d \in DOMAIN query :
         Reached(d) /\ HasBothFields(query[d]) /\ StampedWithinDay(d)

---------------------------------------------------------------------------
(* C5 *)

\* C5 as stated: after a pass, every listing of its query that had no stamp
\* got exactly one link-creation, one notify and one store update that set
\* its stamp to the pass's now.
C5_Original ==
    rpc = "sleep" =>
        \A d \in DOMAIN query :
            query[d].last_email_sent = None =>
                /\ pass[d].link = 1
                /\ pass[d].notify = 1
                /\ pass[d].update = 1
                /\ customads[d].last_email_sent = Some(now)

\* C5 (amended): the pass makes, for a listing of its query without stamp that
\* its loop has reached: no call at all when adUnitId or ad_admin is missing;
\* otherwise exactly one link-creation call, and then, when the call gave a
\* link, exactly one notify call and one store update call, which sets the
\* stamp to the pass's now when the store accepts it, and, when it gave none,
\* no notify call and no store update.
C5_UnstampedListing ==
    \A d \in DOMAIN query :
        (Reached(d) /\ query[d].last_email_sent = None) =>
            IF ~HasBothFields(query[d])
            THEN /\ pass[d].link = 0 /\ pass[d].notify = 0 /\ pass[d].update = 0
                 /\ customads[d].last_email_sent = None
            ELSE /\ pass[d].link = 1
                 /\ pass[d].linked =>
                        /\ pass[d].notify = 1
                        /\ pass[d].update = 1
                        /\ pass[d].stored => customads[d].last_email_sent = Some(now)
                 /\ ~pass[d].linked =>
                        /\ pass[d].notify = 0
                        /\ pass[d].update = 0
                        /\ customads[d].last_email_sent = None

\* a pass is over in which an unstamped listing got its link, its mail and its stamp
C5_Witness ==
    /\ rpc = "sleep"
    /\ \E d \in DOMAIN query :
         /\ query[d].last_email_sent = None
         /\ HasBothFields(query[d])
         /\ pass[d].link = 1 /\ pass[d].notify = 1 /\ pass[d].update = 1
         /\ pass[d].mailed
         /\ customads[d].last_email_sent = Some(now)

---------------------------------------------------------------------------
(* C6 *)

\* C6: when a pass obtained a link for a listing and the dispatch of the mail
\* failed, the pass makes no store update for the listing and its stamp stays
\* the one the pass read.
C6_FailedDispatchLeavesStamp ==
    \A d \in DOMAIN query :
        (Reached(d) /\ pass[d].linked /\ ~pass[d].mailed) =>
            /\ pass[d].update = 0
            /\ customads[d].last_email_sent = query[d].last_email_sent

---------------------------------------------------------------------------
(* C7 *)

\* C7: any two passes that called the notifier for the same listing have nows
\* at least 24h apart.  (An update of last_email_sent that fails ends the
\* thread, so the exception the claim allows for never comes into play.)
C7_OncePerDay ==
    \A d \in Docs :
        \A i, j \in DOMAIN dispatchLog[d] :
            i < j => dispatchLog[d][j] - dispatchLog[d][i] >= DAY

\* a listing has been notified by two passes
C7_Witness == \E d \in Docs : Len(dispatchLog[d]) >= 2

---------------------------------------------------------------------------
(* C8 *)

\* C8: in every reachable state, a listing whose isApproved is true has
\* status active.
C8_ApprovedImpliesActive ==
    \A d \in Docs : customads[d].isApproved = TRUE => customads[d].status = "active"

\* in the middle of a pass, a listing its query returned as unapproved has
\* meanwhile been approved by the webhook handler
C8_Witness ==
    /\ rpc = "loop"
    /\ \E d \in DOMAIN query : customads[d].isApproved = TRUE

---------------------------------------------------------------------------
(* C9 *)

C9_Step == \A d \in Docs : Approved(customads[d]) => Approved(customads'[d])

\* C9: a listing that is approved and active is approved and active after
\* every step of the reconciler and of the webhook handler.
C9_ActiveIsTerminal == [][C9_Step]_vars

\* the reconciler has stamped, from its earlier read, a listing that was
\* approved by the time its turn came, and the listing is still approved
C9_Witness ==
    \E d \in DOMAIN query :
        /\ pass[d].approvedAtTurn
        /\ pass[d].update = 1
        /\ pass[d].stored
        /\ customads[d].last_email_sent = Some(now)
        /\ Approved(customads[d])

---------------------------------------------------------------------------
(* C10 *)

\* C10: every execution that received a validly signed, parseable event and
\* has ended answered 200, whatever the store did.
C10_AlwaysSuccess ==
    \A h \in Handlers :
        (hpc[h] \in {"returned", "raised"} /\ ValidEvent(hev[h])) => hresp[h] = 200

---------------------------------------------------------------------------
(* C11 *)

\* C11: no failure of link creation, of the dispatch, of the store query or
\* of a store update ends the reconciler thread: it is always in its loop,
\* asleep or at the head of the next pass.
C11_ReconcilerKeepsRunning == rpc \in {"start", "loop", "sleep"}

---------------------------------------------------------------------------
(* C12 *)

\* the notifier has never been called for listing d, which has both fields,
\* is unapproved and is not throttled at the pass's now
AwaitsFirstMail(d) ==
    /\ HasBothFields(customads[d])
    /\ customads[d].isApproved = FALSE
    /\ dispatchLog[d] = << >>
    /\ \/ customads[d].last_email_sent = None
       \/ now.wall - customads[d].last_email_sent[1].wall >= DAY

\* C12: a listing that stays unapproved and has both fields eventually gets a
\* dispatched notification.  The thread, once ended, takes no further step,
\* so the claim requires that the thread never ends while such a listing has
\* not had a single call of the notifier.
C12_EveryListingServed ==
    rpc = "dead" => \A d \in Docs : ~AwaitsFirstMail(d)

---------------------------------------------------------------------------
(* C13 *)

\* the current pass asked for a link for d and got none
LinkFailedFor(d) == d \in DOMAIN query /\ Reached(d) /\ pass[d].link = 1 /\ ~pass[d].linked

C13_Post ==
    \A d \in Docs :
        LinkFailedFor(d) =>
            /\ pass[d].notify = 0
            /\ pass[d].update = 0
            /\ customads[d].last_email_sent = query[d].last_email_sent

\* the step in which link creation fails writes nothing and calls no notifier
C13_FailingStep ==
    \A d \in Docs :
        (pass'[d].link = pass[d].link + 1 /\ ~pass'[d].linked) =>
            customads' = customads /\ dispatchLog' = dispatchLog

\* the query of the next pass reads the listing with a stamp that does not
\* throttle it
C13_NextPass ==
    (passes' = passes + 1 /\ rpc' = "loop") =>
        \A d \in Docs :
            (LinkFailedFor(d) /\ d \in DOMAIN query') =>
                \/ query'[d].last_email_sent = None
                \/ now'.wall - query'[d].last_email_sent[1].wall >= DAY

\* C13: when link creation fails for a listing, the pass calls no notifier
\* for it and writes none of its fields, its stamp stays as read, and the
\* next pass that finds it unapproved does not throttle it.
C13_LinkFailureLeavesListing ==
    []C13_Post /\ [][C13_FailingStep /\ C13_NextPass]_vars

\* the second pass asks again for a link for an unstamped listing that no
\* pass has notified, hence one the first pass got no link for
C13_Witness ==
    /\ passes = 2
    /\ \E d \in DOMAIN query :
         /\ HasBothFields(query[d])
         /\ query[d].last_email_sent = None
         /\ dispatchLog[d] = << >>
         /\ LinkFailedFor(d)

---------------------------------------------------------------------------
(* C14 *)

Ended(h) == hpc[h] \in {"returned", "raised"}

\* C14: when two executions of the handler have been given the same
\* completion event and both have ended, in whatever order their steps and
\* those of the reconciler were taken, both answered 200 and the listings the
\* event names are in the state a single delivery leaves them in: approved
\* and active.
C14_DuplicateDeliveriesHarmless ==
    \A h1, h2 \in Handlers :
        (h1 # h2 /\ Ended(h1) /\ Ended(h2) /\ hev[h1] = hev[h2] /\ CompletionEvent(hev[h1])) =>
            /\ hresp[h1] = 200
            /\ hresp[h2] = 200
            /\ \A d \in Matching(hev[h1]) : Approved(customads[d])

---------------------------------------------------------------------------
(* C15 *)

C15_ReconcilerStep ==
    rvars' # rvars =>
        /\ hvars' = hvars
        /\ \A d \in Docs :
             /\ customads'[d].isApproved = customads[d].isApproved
             /\ customads'[d].status = customads[d].status
             /\ customads'[d].adUnitId = customads[d].adUnitId
             /\ customads'[d].ad_admin = customads[d].ad_admin
             /\ customads'[d].last_email_sent # customads[d].last_email_sent =>
                    rpc = "loop" /\ todo # {} /\ d = First(todo)

C15_HandlerStep ==
    hvars' # hvars =>
        /\ rvars' = rvars
        /\ \A d \in Docs :
             /\ customads'[d].last_email_sent = customads[d].last_email_sent
             /\ customads'[d].adUnitId = customads[d].adUnitId
             /\ customads'[d].ad_admin = customads[d].ad_admin

\* C15: a step of the reconciler changes no isApproved and no status and at
\* most the last_email_sent of the listing its loop is at; a step of the
\* webhook handler changes no last_email_sent and at most isApproved and
\* status; no step adds or removes a document.
C15_FieldOwnership ==
    [][C15_ReconcilerStep /\ C15_HandlerStep /\ DOMAIN customads' = DOMAIN customads]_vars

\* a listing carries the stamp of the current pass and an approval that came
\* after the pass had stamped it
C15_Witness ==
    \E d \in DOMAIN query :
        /\ pass[d].stored
        /\ ~pass[d].approvedAtTurn
        /\ customads[d].last_email_sent = Some(now)
        /\ Approved(customads[d])

---------------------------------------------------------------------------
(* C16 *)

C16_Post ==
    \A d \in DOMAIN query :
        ~HasBothFields(query[d]) =>
            /\ pass[d].link = 0
            /\ pass[d].notify = 0
            /\ pass[d].update = 0
            /\ customads[d].last_email_sent = query[d].last_email_sent

\* the iteration for a listing that lacks a field changes nothing in the
\* store and leaves the loop running on the rest of the query result
C16_SkippingStep ==
    \A d \in Docs :
        (rpc = "loop" /\ todo # {} /\ d = First(todo) /\ ~HasBothFields(query[d])
            /\ rvars' # rvars) =>
            /\ customads' = customads
            /\ dispatchLog' = dispatchLog
            /\ rpc' = "loop"
            /\ todo' = todo \ {d}

\* C16: a listing of the query result that lacks adUnitId or ad_admin gets no
\* link-creation call, no notify call and no store update, whatever its
\* stamp, and the loop goes on to the remaining listings.
C16_MissingFieldsSkipped == []C16_Post /\ [][C16_SkippingStep]_vars

\* a pass went past a stamped listing without adUnitId and then notified the
\* listing that came after it
C16_Witness ==
    \E d, e \in DOMAIN query :
        /\ d # e
        /\ First({d, e}) = d
        /\ ~HasBothFields(query[d])
        /\ query[d].last_email_sent # None
        /\ Reached(d)
        /\ Reached(e)
        /\ pass[e].notify = 1

---------------------------------------------------------------------------
(* C17 *)

C17_Step ==
    \A d \in Docs :
        customads[d].last_email_sent # None =>
            /\ customads'[d].last_email_sent # None
            /\ Instant(customads'[d].last_email_sent[1]) >= Instant(customads[d].last_email_sent[1])

\* C17: a listing that has a last_email_sent keeps one, and no step stores an
\* earlier instant than the one stored before.
C17_StampNeverDecreases == [][C17_Step]_vars

\* a pass has replaced the stamp it read for a listing by its own, later now
C17_Witness ==
    \E d \in DOMAIN query :
        /\ query[d].last_email_sent # None
        /\ pass[d].stored
        /\ customads[d].last_email_sent = Some(now)
        /\ Instant(now) > Instant(query[d].last_email_sent[1])

---------------------------------------------------------------------------
(* C18 *)

\* the stamp the pass read for d is a day or more before the pass's now
StampedDayAgo(d) ==
    /\ query[d].last_email_sent # None
    /\ now.wall - query[d].last_email_sent[1].wall >= DAY

\* C18: a listing of the query result with both fields whose stamp is 24h or
\* more (exactly 24h included) before the now taken at the start of the pass
\* is not skipped: the pass asks for a link for it and, given a link, calls
\* the notifier once and updates the stamp, to that now when the store
\* accepts the update.
C18_WindowIsOneDay ==
    \A d \in DOMAIN query :
        (Reached(d) /\ HasBothFields(query[d]) /\ StampedDayAgo(d)) =>
            /\ pass[d].link = 1
            /\ pass[d].linked =>
                   /\ pass[d].notify = 1
                   /\ pass[d].update = 1
                   /\ pass[d].stored => customads[d].last_email_sent = Some(now)

\* a listing stamped exactly 24h before the pass's now has been mailed again
\* and carries that now
C18_Witness ==
    \E d \in DOMAIN query :
        /\ query[d].last_email_sent # None
        /\ now.wall - query[d].last_email_sent[1].wall = DAY
        /\ pass[d].notify = 1
        /\ pass[d].mailed
        /\ customads[d].last_email_sent = Some(now)

---------------------------------------------------------------------------
(* C19 *)

\* the calls of the current pass are for listings its query read as
\* unapproved, at most one link and one mail each
C19_Post ==
    \A d \in Docs :
        (pass[d].link > 0 \/ pass[d].notify > 0) =>
            /\ d \in DOMAIN query
            /\ query[d].isApproved = FALSE
            /\ pass[d].link = 1
            /\ pass[d].notify <= 1

\* a listing that is approved when a pass runs its query is not in the result
C19_QueryStep ==
    (passes' = passes + 1) =>
        \A d \in Docs : customads[d].isApproved = TRUE => d \notin DOMAIN query'

\* no step calls the link issuer or the notifier for a listing outside the
\* result of the current pass's query
C19_CallStep ==
    \A d \in Docs :
        (pass'[d].link > pass[d].link \/ dispatchLog'[d] # dispatchLog[d]) =>
            d \in DOMAIN query /\ query[d].isApproved = FALSE /\ d \in todo

\* C19: a pass calls the link issuer and the notifier only for listings that
\* were unapproved when it ran its query, so a listing approved before the
\* query of a pass is notified neither by that pass nor by a later one; a
\* listing approved between the query and its turn can still be notified,
\* once, by that pass.
C19_OnlyUnapprovedAtQuery == []C19_Post /\ [][C19_QueryStep /\ C19_CallStep]_vars

\* a listing already approved when its turn came has been notified by the
\* pass that had read it as unapproved
C19_Witness ==
    \E d \in DOMAIN query :
        /\ query[d].isApproved = FALSE
        /\ pass[d].approvedAtTurn
        /\ pass[d].notify = 1
        /\ Len(dispatchLog[d]) >= 1

---------------------------------------------------------------------------
(* C20 *)

\* a validly signed completion event whose metadata holds no ad_id
NoAdIdEvent(ev) == CompletionEvent(ev) /\ ev.ad_id = None

NamedUnknown == { d \in Docs : customads[d].adUnitId = "Unknown" }

C20_Post ==
    \A h \in Handlers :
        (hpc[h] = "returned" /\ NoAdIdEvent(hev[h])) =>
            /\ hresp[h] = 200
            /\ \A d \in NamedUnknown : Approved(customads[d])

C20_Frame ==
    \A h \in Handlers :
        (HandlerStep(h) /\ NoAdIdEvent(Handled(h))) =>
            \A d \in Docs :
                IF d \in NamedUnknown
                THEN customads'[d] \in
                        {customads[d], [customads[d] EXCEPT !.isApproved = TRUE, !.status = "active"]}
                ELSE customads'[d] = customads[d]

\* C20: an execution that received a validly signed completion event without
\* ad_id and reached its return statement answered 200 and has approved and
\* activated every listing whose adUnitId is the string "Unknown"; its steps
\* change no other listing, so nothing when there is no such listing.
C20_MissingAdIdMeansUnknown == []C20_Post /\ [][C20_Frame]_vars

\* such an execution has returned with two listings named "Unknown", both approved
C20_Witness ==
    \E h \in Handlers :
        /\ hpc[h] = "returned"
        /\ NoAdIdEvent(hev[h])
        /\ Cardinality(NamedUnknown) = 2
        /\ \A d \in NamedUnknown : Approved(customads[d])

=============================================================================
